---- MODULE Spec2Model ----
(***************************************************************************)
(* The JSON-RPC key/value server of src/sever/server.go.                   *)
(*                                                                         *)
(* InMemoryStorage is a Go map guarded by a sync.RWMutex; HandleRequest    *)
(* decodes one JSON-RPC envelope, routes it by method name to one storage  *)
(* operation and encodes one response.  net/http runs every request on its *)
(* own goroutine, so the handlers of several workers interleave; the only  *)
(* state they share is the storage (data, mu).                             *)
(*                                                                         *)
(* A handler is cut where it can block or touch shared state:              *)
(*   idle --HandleRequest--> lock --<Op>_Lock--> crit --<Op>_Body--> done  *)
(*        --Return--> idle                                                 *)
(* HandleRequest is everything up to the storage call (decode, the         *)
(* envelope's header, the switch, the params), and it is the whole         *)
(* handler when no storage call is made (undecodable body, params that     *)
(* make a type assertion panic, unknown method).  <Op>_Body is the body of *)
(* the storage operation with its deferred unlock, and the rest of the     *)
(* handler, which touches nothing shared: the response is filled in and    *)
(* encoded, and the handler's locals are gone.                             *)
(***************************************************************************)
EXTENDS Integers, Sequences, FiniteSets, TLC

\* ------------------------------------------------------------------ bounds
\* Number of requests net/http serves in parallel (one goroutine each).
NumWorkers == 2

\* Number of requests the sequential client sends, one after the other.
ScenarioLen == 4

\* Number of requests the front end serves in parallel.
NumFront == 2

Workers == 1..NumWorkers

\* ------------------------------------------------------------- input sets
Keys == {"a", "b"}
Values == {"1", "2"}
Ids == {1}

\* The four routed method names, and one that is not routed (the name the
\* front end of src/client/client.go calls).
KnownMethods == {"get", "post", "put", "delete"}
Methods == KnownMethods \cup {"createUser"}

\* A params field that is absent from the JSON object, or present with a
\* JSON type other than string.
Missing == "<missing>"
NotAString == "<number>"
KeyFields == Keys \cup {Missing, NotAString}
ValueFields == Values \cup {Missing, NotAString}

\* Params that did not decode to map[string]interface{} (null, array, absent).
NotAMap == [isMap |-> FALSE, key |-> Missing, value |-> Missing]

\* The params the clients send with a method: every combination of the two
\* fields with post and put; with get and delete, which never read "value",
\* every key field, with and without a value beside it; with another method,
\* an object without either field, one with both, and no object.
ParamsSet(method) ==
    {NotAMap} \cup
    CASE method \in {"post", "put"} ->
            [isMap : {TRUE}, key : KeyFields, value : ValueFields]
      [] method \in {"get", "delete"} ->
            [isMap : {TRUE}, key : KeyFields, value : {Missing, "1"}]
      [] OTHER ->
            [isMap : {TRUE}, key : {Missing, "a"}, value : {Missing, "1"}]

\* A request body: one that json.Decode rejects, or a decoded RPCRequest.
Malformed == [decodes |-> FALSE, id |-> 0, method |-> "", params |-> NotAMap]
Bodies ==
    {Malformed} \cup
    UNION {[decodes : {TRUE}, id : Ids, method : {m}, params : ParamsSet(m)] : m \in Methods}

\* ------------------------------------------------------------- Go values
\* The nil interface value / nil error, as opposed to any string.
Nil == "<nil>"
\* A nil *jsonrpc.RPCError.
NilError == [isNil |-> TRUE, Code |-> 0, Message |-> ""]
RPCError(code, message) == [isNil |-> FALSE, Code |-> code, Message |-> message]

MethodNotFound == -32601
AppErrorCode == 1
KeyNotFound == "key not found"
Success == "success"

\* ------------------------------------------------------------------ state
VARIABLES
    data,   \* InMemoryStorage.data: the map, a function on the present keys
    mu,     \* InMemoryStorage.mu: the RWMutex (held readers, held writer)
    pc,     \* per worker: where its handler stands
    call,   \* per worker: req.ID, req.Method and the key and value extracted
            \* from req.Params, until the storage call's answer is encoded
    ret,    \* per worker: what the storage operation returned (value, err)
    res,    \* per worker: the RPCResponse being built
    out,    \* per worker: what the handler wrote to the connection
    fatal,  \* the Go runtime ended the process ("concurrent map writes")
    last,   \* history: per key, the latest mutation applied to it
    trace,  \* the sequential client: the requests it sent and their answers
    front   \* the process of src/client/client.go, a record of
            \*   users:    the map users, a function on the ids present
            \*   mutex:    the worker that holds mutex, 0 when it is free
            \*   handlers: the handlers that run, a function on their
            \*             workers, each a record of
            \*     pc:   where the handler stands
            \*     call: the request (route, id, decoded user)
            \*     out:  what the handler wrote to the connection
            \*     fwd:  what came back for the forwarded call

server == <<data, mu, pc, call, ret, res, out, fatal, last>>
rest == <<trace, front>>
vars == <<data, mu, pc, call, ret, res, out, fatal, last, trace, front>>

users == front.users
mutex == front.mutex

NoCall == [id |-> 0, method |-> "", key |-> "", value |-> ""]
NoRet == [value |-> "", err |-> Nil]
NoRes == [ID |-> 0, Result |-> Nil, Error |-> NilError]

\* One mutation of the history: the operation, the value it was called with
\* and, for a put that came right after a put of the same key, the value of
\* that earlier put.
NoMut == [op |-> "none", val |-> "", before |-> ""]

\* ------------------------------------------------------- sync.RWMutex
\* The lock as the storage methods use it: any number of readers or one
\* writer.  readers counts the RLock holders, writer says Lock is held.
CanRLock(m) == ~m.writer
RLock(m) == [m EXCEPT !.readers = @ + 1]
RUnlock(m) == [m EXCEPT !.readers = @ - 1]
CanLock(m) == ~m.writer /\ m.readers = 0
Lock(m) == [m EXCEPT !.writer = TRUE]
Unlock(m) == [m EXCEPT !.writer = FALSE]

\* ---------------------------------------------------- storage operations
\* Every Go map over Keys and Values.
AllMaps == UNION {[S -> Values] : S \in SUBSET Keys}

\* Get: value, ok := s.data[key]; "key not found" when !ok.
Get(d, key) ==
    IF key \in DOMAIN d
    THEN [value |-> d[key], err |-> Nil]
    ELSE [value |-> "", err |-> KeyNotFound]

\* Post as an insert that refuses a key already present.
Post_RejectsPresent(d, key, value) ==
    IF key \in DOMAIN d
    THEN [data |-> d, err |-> "key already exists"]
    ELSE [data |-> [k \in DOMAIN d \cup {key} |-> IF k = key THEN value ELSE d[k]],
          err |-> Nil]

\* Post as an insert that keeps the value of a key already present.
Post_KeepsPresent(d, key, value) ==
    [data |-> [k \in DOMAIN d \cup {key} |-> IF k \in DOMAIN d THEN d[k] ELSE value],
     err |-> Nil]

\* Post: s.data[key] = value; return nil.
Post(d, key, value) ==
    [data |-> [k \in DOMAIN d \cup {key} |-> IF k = key THEN value ELSE d[k]],
     err |-> Nil]

\* Put as an update that keeps the value of a key already present.
Put_KeepsPresent(d, key, value) ==
    [data |-> [k \in DOMAIN d \cup {key} |-> IF k \in DOMAIN d THEN d[k] ELSE value],
     err |-> Nil]

\* Put: s.data[key] = value; return nil.
Put(d, key, value) ==
    [data |-> [k \in DOMAIN d \cup {key} |-> IF k = key THEN value ELSE d[k]],
     err |-> Nil]

\* Delete that empties the map.
Delete_All(d, key) == [data |-> << >>, err |-> Nil]

\* Delete without the call of the builtin delete.
Delete_KeepsKey(d, key) == [data |-> d, err |-> Nil]

\* Delete: delete(s.data, key); return nil.  The builtin delete is a no-op
\* on an absent key, and the method returns nil either way.
Delete(d, key) ==
    [data |-> [k \in DOMAIN d \ {key} |-> d[k]],
     err |-> Nil]

\* ------------------------------------------------------------ dispatcher
\* req.Params.(map[string]interface{})[field].(string) panics when the
\* params are no JSON object, or the field is absent (a nil interface) or
\* holds another JSON type.
IsString(field) == field \notin {Missing, NotAString}
NeedsValue(method) == method \in {"post", "put"}
ParamsPanic(method, params) ==
    \/ ~params.isMap
    \/ ~IsString(params.key)
    \/ NeedsValue(method) /\ ~IsString(params.value)

\* The decode's error ignored.
DecodeFails_Never(body) == FALSE

\* json.NewDecoder(r.Body).Decode(&req) returns an error.
DecodeFails(body) == ~body.decodes

\* The locals of the handler once the params are extracted; get and delete
\* never read params["value"].
Locals(body) ==
    [id |-> body.id, method |-> body.method, key |-> body.params.key,
     value |-> IF NeedsValue(body.method) THEN body.params.value ELSE ""]

\* The response without res.ID = req.ID.
NewResponse_NoID(id) == [ID |-> 0, Result |-> Nil, Error |-> NilError]

\* var res; res.JSONRPC = "2.0"; res.ID = req.ID
NewResponse(id) == [ID |-> id, Result |-> Nil, Error |-> NilError]

\* The default branch with the application's error code.
UnknownMethodResponse_AppCode(r) ==
    [r EXCEPT !.Error = RPCError(AppErrorCode, "Method not found")]

\* default: res.Error = &RPCError{Code: -32601, Message: "Method not found"}
UnknownMethodResponse(r) ==
    [r EXCEPT !.Error = RPCError(MethodNotFound, "Method not found")]

\* The mapping without its else: the result is set on an error too.
ResponseFor_NoElse(r, method, rv) ==
    [r EXCEPT !.Error = IF rv.err # Nil THEN RPCError(AppErrorCode, rv.err) ELSE @,
              !.Result = IF method = "get" THEN rv.value ELSE Success]

\* The mapping with get answered like the writers.
ResponseFor_GetSuccess(r, method, rv) ==
    IF rv.err # Nil
    THEN [r EXCEPT !.Error = RPCError(AppErrorCode, rv.err)]
    ELSE [r EXCEPT !.Result = Success]

\* The if err != nil {...} else {...} after each storage call.
ResponseFor(r, method, rv) ==
    IF rv.err # Nil
    THEN [r EXCEPT !.Error = RPCError(AppErrorCode, rv.err)]
    ELSE [r EXCEPT !.Result = IF method = "get" THEN rv.value ELSE Success]

\* ---------------------------------------------------------------- history
\* The mutation op(k, v) is now the latest applied to key k.
Record(h, k, op, v) ==
    [h EXCEPT ![k] = [op |-> op, val |-> v,
                      before |-> IF op = "put" /\ @.op = "put" THEN @.val ELSE ""]]

\* -------------------------------------------------------------- front end
\* src/client/client.go: the REST service with its own map of users, guarded
\* by one sync.Mutex that every handler takes on entry and releases, by
\* defer, when it returns or panics.
FrontWorkers == 1..NumFront
UserIds == {"u1", "u2"}
Names == {"ann", "bob"}
\* A request body that json.Decode rejects.
BadJSON == "<bad json>"

\* The requests by the handler they are routed to; "unsupported" is a
\* method neither usersHandler nor userHandler has a case for.
FrontRequests ==
    [op : {"createUser"}, id : {""}, body : Names \cup {BadJSON}]
    \cup [op : {"getAllUsers", "unsupported"}, id : {""}, body : {""}]
    \cup [op : {"getUser", "deleteUser"}, id : UserIds, body : {""}]
    \cup [op : {"updateUser"}, id : UserIds, body : Names \cup {BadJSON}]

NoFrontCall == [op |-> "", id |-> "", body |-> ""]
\* What a handler wrote: the status and, with 200, the users encoded.
Reply(status, encoded) == [status |-> status, body |-> encoded]
NoReply == Reply("none", << >>)
\* What client.Call got back: nothing yet, no connection, an HTTP 404, or
\* a JSON-RPC envelope.
NoAnswer == [kind |-> "none", res |-> NoRes]

\* A worker without a request, and the handlers by their parts.
NoHandler == [pc |-> "idle", call |-> NoFrontCall, out |-> NoReply, fwd |-> NoAnswer]
Handler(f) == IF f \in DOMAIN front.handlers THEN front.handlers[f] ELSE NoHandler
fpc == [f \in FrontWorkers |-> Handler(f).pc]
fcall == [f \in FrontWorkers |-> Handler(f).call]
fout == [f \in FrontWorkers |-> Handler(f).out]
fwd == [f \in FrontWorkers |-> Handler(f).fwd]

\* ------------------------------------------------------------------- Init
Init ==
    /\ data = << >>
    /\ mu = [readers |-> 0, writer |-> FALSE]
    /\ pc = [w \in Workers |-> "idle"]
    /\ call = [w \in Workers |-> NoCall]
    /\ ret = [w \in Workers |-> NoRet]
    /\ res = [w \in Workers |-> NoRes]
    /\ out = [w \in Workers |-> "none"]
    /\ fatal = FALSE
    /\ last = [k \in Keys |-> NoMut]
    /\ trace = << >>
    /\ front = [users |-> << >>, mutex |-> 0, handlers |-> << >>]

\* ---------------------------------------------------------------- actions
\* HandleRequest up to the storage call.  An undecodable body is answered
\* with http.Error(400); a panic in the params' type assertions unwinds the
\* handler, and net/http recovers it and closes the connection with nothing
\* written; an unknown method is answered at once.
HandleRequest(w, body) ==
    /\ ~fatal
    /\ pc[w] = "idle"
    /\ IF DecodeFails(body)
       THEN /\ pc' = [pc EXCEPT ![w] = "done"]
            /\ out' = [out EXCEPT ![w] = "bad_request"]
            /\ UNCHANGED <<call, res>>
       ELSE IF body.method \notin KnownMethods
       THEN /\ pc' = [pc EXCEPT ![w] = "done"]
            /\ call' = [call EXCEPT ![w] = [id |-> body.id, method |-> body.method,
                                           key |-> "", value |-> ""]]
            /\ res' = [res EXCEPT ![w] = UnknownMethodResponse(NewResponse(body.id))]
            /\ out' = [out EXCEPT ![w] = "envelope"]
       ELSE IF ParamsPanic(body.method, body.params)
       THEN /\ pc' = [pc EXCEPT ![w] = "done"]
            /\ out' = [out EXCEPT ![w] = "aborted"]
            /\ UNCHANGED <<call, res>>
       ELSE /\ pc' = [pc EXCEPT ![w] = "lock"]
            /\ call' = [call EXCEPT ![w] = Locals(body)]
            /\ res' = [res EXCEPT ![w] = NewResponse(body.id)]
            /\ UNCHANGED out
    /\ UNCHANGED <<data, mu, ret, fatal, last>>

\* Another goroutine is inside a critical section that conflicts with w's:
\* any other when w writes the map, a writer when w reads it.
Racing(w, writes) ==
    \E o \in Workers \ {w} :
        /\ pc[o] = "crit"
        /\ writes \/ call[o].method # "get"

\* The storage call of worker w returns rv with the lock m released: the
\* handler fills in the response, encodes it and returns.
Finish(w, rv, m) ==
    /\ ret' = [ret EXCEPT ![w] = rv]
    /\ mu' = m
    /\ res' = [res EXCEPT ![w] = ResponseFor(@, call[w].method, rv)]
    /\ out' = [out EXCEPT ![w] = "envelope"]
    /\ pc' = [pc EXCEPT ![w] = "done"]
    /\ call' = [call EXCEPT ![w] = NoCall]

\* Get without s.mu.RLock().
Get_NoRLock(w) ==
    /\ ~fatal
    /\ pc[w] = "lock" /\ call[w].method = "get"
    /\ pc' = [pc EXCEPT ![w] = "crit"]
    /\ UNCHANGED <<data, mu, call, ret, res, out, fatal, last>>

\* s.mu.RLock() of Get
Get_RLock(w) ==
    /\ ~fatal
    /\ pc[w] = "lock" /\ call[w].method = "get"
    /\ CanRLock(mu)
    /\ mu' = RLock(mu)
    /\ pc' = [pc EXCEPT ![w] = "crit"]
    /\ UNCHANGED <<data, call, ret, res, out, fatal, last>>

\* The body of Get with its deferred RUnlock, and the handler's response.
\* A read that races with a write is undefined: the runtime may end the
\* process, or the read may see any map.
Get_Body(w) ==
    /\ ~fatal
    /\ pc[w] = "crit" /\ call[w].method = "get"
    /\ IF Racing(w, FALSE)
       THEN \/ /\ fatal' = TRUE
               /\ UNCHANGED <<ret, mu, res, out, pc, call>>
            \/ /\ \E d \in AllMaps : Finish(w, Get(d, call[w].key), RUnlock(mu))
               /\ UNCHANGED fatal
       ELSE /\ Finish(w, Get(data, call[w].key), RUnlock(mu))
            /\ UNCHANGED fatal
    /\ UNCHANGED <<data, last>>

\* A writer's critical section with its deferred Unlock, and the handler's
\* response: the map becomes r.data and the method returns r.err.  A write
\* that races with another access is undefined: the runtime may end the
\* process, or the map may end up holding anything.
WriteBody(w, r) ==
    /\ last' = Record(last, call[w].key, call[w].method, call[w].value)
    /\ IF Racing(w, TRUE)
       THEN \/ /\ fatal' = TRUE
               /\ UNCHANGED <<data, ret, mu, res, out, pc, call>>
            \/ /\ data' \in AllMaps
               /\ Finish(w, [value |-> "", err |-> r.err], Unlock(mu))
               /\ UNCHANGED fatal
       ELSE /\ data' = r.data
            /\ Finish(w, [value |-> "", err |-> r.err], Unlock(mu))
            /\ UNCHANGED fatal

\* Post without s.mu.Lock().
Post_NoLock(w) ==
    /\ ~fatal
    /\ pc[w] = "lock" /\ call[w].method = "post"
    /\ pc' = [pc EXCEPT ![w] = "crit"]
    /\ UNCHANGED <<data, mu, call, ret, res, out, fatal, last>>

\* s.mu.Lock() of Post
Post_Lock(w) ==
    /\ ~fatal
    /\ pc[w] = "lock" /\ call[w].method = "post"
    /\ CanLock(mu)
    /\ mu' = Lock(mu)
    /\ pc' = [pc EXCEPT ![w] = "crit"]
    /\ UNCHANGED <<data, call, ret, res, out, fatal, last>>

Post_Body(w) ==
    /\ ~fatal
    /\ pc[w] = "crit" /\ call[w].method = "post"
    /\ WriteBody(w, Post(data, call[w].key, call[w].value))

\* Put with s.mu.RLock() where it has s.mu.Lock().
Put_RLock(w) ==
    /\ ~fatal
    /\ pc[w] = "lock" /\ call[w].method = "put"
    /\ CanRLock(mu)
    /\ mu' = RLock(mu)
    /\ pc' = [pc EXCEPT ![w] = "crit"]
    /\ UNCHANGED <<data, call, ret, res, out, fatal, last>>

\* s.mu.Lock() of Put
Put_Lock(w) ==
    /\ ~fatal
    /\ pc[w] = "lock" /\ call[w].method = "put"
    /\ CanLock(mu)
    /\ mu' = Lock(mu)
    /\ pc' = [pc EXCEPT ![w] = "crit"]
    /\ UNCHANGED <<data, call, ret, res, out, fatal, last>>

Put_Body(w) ==
    /\ ~fatal
    /\ pc[w] = "crit" /\ call[w].method = "put"
    /\ WriteBody(w, Put(data, call[w].key, call[w].value))

\* s.mu.Lock() of Delete
Delete_Lock(w) ==
    /\ ~fatal
    /\ pc[w] = "lock" /\ call[w].method = "delete"
    /\ CanLock(mu)
    /\ mu' = Lock(mu)
    /\ pc' = [pc EXCEPT ![w] = "crit"]
    /\ UNCHANGED <<data, call, ret, res, out, fatal, last>>

Delete_Body(w) ==
    /\ ~fatal
    /\ pc[w] = "crit" /\ call[w].method = "delete"
    /\ WriteBody(w, Delete(data, call[w].key))

\* The client has its answer and the connection serves the next request.
Return(w) ==
    /\ ~fatal
    /\ pc[w] = "done"
    /\ pc' = [pc EXCEPT ![w] = "idle"]
    /\ ret' = [ret EXCEPT ![w] = NoRet]
    /\ res' = [res EXCEPT ![w] = NoRes]
    /\ out' = [out EXCEPT ![w] = "none"]
    /\ call' = [call EXCEPT ![w] = NoCall]
    /\ UNCHANGED <<data, mu, fatal, last>>

Next ==
    \/ \E w \in Workers, body \in Bodies : HandleRequest(w, body) /\ UNCHANGED rest
    \/ \E w \in Workers : Get_RLock(w) /\ UNCHANGED rest
    \/ \E w \in Workers : Get_Body(w) /\ UNCHANGED rest
    \/ \E w \in Workers : Post_Lock(w) /\ UNCHANGED rest
    \/ \E w \in Workers : Post_Body(w) /\ UNCHANGED rest
    \/ \E w \in Workers : Put_Lock(w) /\ UNCHANGED rest
    \/ \E w \in Workers : Put_Body(w) /\ UNCHANGED rest
    \/ \E w \in Workers : Delete_Lock(w) /\ UNCHANGED rest
    \/ \E w \in Workers : Delete_Body(w) /\ UNCHANGED rest
    \/ \E w \in Workers : Return(w) /\ UNCHANGED rest

Spec == Init /\ [][Next]_vars

\* The decoded request method(key, value), under the id 1.
Call(method, key, value) ==
    [decodes |-> TRUE, id |-> 1, method |-> method,
     params |-> [isMap |-> TRUE, key |-> key, value |-> value]]

\* ------------------------------------------- clients with their own ids
\* The clients number their requests: two correlation ids, on the bodies
\* whose params are no object or name the key "a" and the value "1", and
\* on the body that does not decode.
WideIds == {1, 2}
IdBodies ==
    {Malformed} \cup
    {[b EXCEPT !.id = i] :
        b \in {c \in Bodies : c.decodes /\ c.params \in {NotAMap, Call("get", "a", "1").params}},
        i \in WideIds}

NextIds ==
    \/ \E w \in Workers, body \in IdBodies : HandleRequest(w, body) /\ UNCHANGED rest
    \/ \E w \in Workers : Get_RLock(w) /\ UNCHANGED rest
    \/ \E w \in Workers : Get_Body(w) /\ UNCHANGED rest
    \/ \E w \in Workers : Post_Lock(w) /\ UNCHANGED rest
    \/ \E w \in Workers : Post_Body(w) /\ UNCHANGED rest
    \/ \E w \in Workers : Put_Lock(w) /\ UNCHANGED rest
    \/ \E w \in Workers : Put_Body(w) /\ UNCHANGED rest
    \/ \E w \in Workers : Delete_Lock(w) /\ UNCHANGED rest
    \/ \E w \in Workers : Delete_Body(w) /\ UNCHANGED rest
    \/ \E w \in Workers : Return(w) /\ UNCHANGED rest

SpecIds == Init /\ [][NextIds]_vars

\* ------------------------------------------------- the sequential client
\* One client on one connection: it sends a request, waits for the answer
\* and only then sends the next, ScenarioLen requests in all.  Its requests
\* are the well-formed calls on the key "a".
ScenarioBodies ==
    {Call(m, "a", Missing) : m \in {"get", "delete"}}
    \cup {Call(m, "a", v) : m \in {"post", "put"}, v \in Values}

\* The client sends body, which worker 1 starts to handle.
ScenarioSend(body) ==
    /\ Len(trace) < ScenarioLen
    /\ HandleRequest(1, body)
    /\ trace' = Append(trace, [req |-> body, out |-> "none", res |-> NoRes])
    /\ UNCHANGED front

\* The client reads what the handler wrote to the connection.
ScenarioReceive ==
    /\ trace # << >>
    /\ Return(1)
    /\ trace' = [trace EXCEPT ![Len(trace)] = [@ EXCEPT !.out = out[1], !.res = res[1]]]
    /\ UNCHANGED front

NextScenario ==
    \/ \E body \in ScenarioBodies : ScenarioSend(body)
    \/ Get_RLock(1) /\ UNCHANGED rest
    \/ Get_Body(1) /\ UNCHANGED rest
    \/ Post_Lock(1) /\ UNCHANGED rest
    \/ Post_Body(1) /\ UNCHANGED rest
    \/ Put_Lock(1) /\ UNCHANGED rest
    \/ Put_Body(1) /\ UNCHANGED rest
    \/ Delete_Lock(1) /\ UNCHANGED rest
    \/ Delete_Body(1) /\ UNCHANGED rest
    \/ ScenarioReceive

SpecScenario == Init /\ [][NextScenario]_vars

\* ------------------------------------------------------ front end: steps
\* idle --Route--> lock --Mutex_Lock--> crit --<handler>--> done
\*      --Front_Return--> idle, and for createUser
\* crit --createUser--> rpc --createUser_Called--> done: the handler waits
\* for client.Call with the mutex held.

\* users[id] = user, without the assignment.
StoreUser_Skipped(u, id, user) == u

\* users[id] = user
StoreUser(u, id, user) ==
    [i \in DOMAIN u \cup {id} |-> IF i = id THEN user ELSE u[i]]

\* delete(users, id)
DropUser(u, id) == [i \in DOMAIN u \ {id} |-> u[i]]

\* The front end after the handler of worker f returned with the reply:
\* the deferred mutex.Unlock() has run.
FrontFinish(s, f, reply) ==
    [s EXCEPT !.handlers[f].out = reply, !.mutex = 0, !.handlers[f].pc = "done"]

\* usersHandler / userHandler: the switch on r.Method; the default case
\* answers 405 and takes no lock.
Route(f, req) ==
    /\ fpc[f] = "idle"
    /\ front' = [front EXCEPT !.handlers =
                    [g \in DOMAIN @ \cup {f} |->
                        IF g # f THEN @[g]
                        ELSE IF req.op = "unsupported"
                             THEN [NoHandler EXCEPT !.call = req,
                                                    !.out = Reply("405", << >>),
                                                    !.pc = "done"]
                             ELSE [NoHandler EXCEPT !.call = req, !.pc = "lock"]]]
    /\ UNCHANGED <<server, trace>>

\* mutex.Lock(), the first statement of every handler
Mutex_Lock(f) ==
    /\ fpc[f] = "lock"
    /\ mutex = 0
    /\ front' = [front EXCEPT !.mutex = f, !.handlers[f].pc = "crit"]
    /\ UNCHANGED <<server, trace>>

\* createUser up to client.Call: a body that does not decode is answered
\* 400; otherwise the user gets a new uuid and is stored, and the call
\* starts with the mutex held.
createUser(f, id) ==
    /\ fpc[f] = "crit" /\ fcall[f].op = "createUser"
    /\ IF fcall[f].body = BadJSON
       THEN front' = FrontFinish(front, f, Reply("400", << >>))
       ELSE /\ id \in UserIds \ DOMAIN users
            /\ front' = [front EXCEPT
                            !.users = StoreUser(@, id, fcall[f].body),
                            !.handlers[f].call.id = id,
                            !.handlers[f].pc = "rpc"]
    /\ UNCHANGED <<server, trace>>

\* The paths: the one client.go posts to and the one StartServer registers
\* HandleRequest under.
ClientPath == "/json-rpc"
ServerPath == "/rpc"

\* What a server started by StartServer answers to the forwarded call: its
\* mux runs HandleRequest on the registered path only, and answers 404 on
\* any other.  The request is method "createUser" with the user as params,
\* an object without "key" and "value".
ForwardedBody ==
    [decodes |-> TRUE, id |-> 1, method |-> "createUser",
     params |-> [isMap |-> TRUE, key |-> Missing, value |-> Missing]]
ServerAnswer(path) ==
    IF path = ServerPath
    THEN [kind |-> "envelope",
          res |-> UnknownMethodResponse(NewResponse(ForwardedBody.id))]
    ELSE [kind |-> "http404", res |-> NoRes]

\* What client.Call can come back with: no connection (nothing listens on
\* localhost:5001), or the server's answer.  It may also never come back.
CallAnswers == {[kind |-> "refused", res |-> NoRes], ServerAnswer(ClientPath)}

\* client.Call has returned.  err != nil (no connection, or a status that
\* is no JSON-RPC response) is answered 500.  With err == nil the handler
\* asserts response.Result.([]byte), which no decoded JSON value is: it
\* panics, net/http recovers and closes the connection.  The deferred
\* Unlock runs either way, and the user stays in the map.
createUser_Called(f, answer) ==
    /\ fpc[f] = "rpc"
    /\ front' = FrontFinish([front EXCEPT !.handlers[f].fwd = answer], f,
                    IF answer.kind = "envelope"
                    THEN Reply("aborted", << >>)
                    ELSE Reply("500", << >>))
    /\ UNCHANGED <<server, trace>>

\* json.NewEncoder(w).Encode(users)
getAllUsers(f) ==
    /\ fpc[f] = "crit" /\ fcall[f].op = "getAllUsers"
    /\ front' = FrontFinish(front, f, Reply("200", users))
    /\ UNCHANGED <<server, trace>>

getUser(f) ==
    /\ fpc[f] = "crit" /\ fcall[f].op = "getUser"
    /\ front' = FrontFinish(front, f,
                    IF fcall[f].id \notin DOMAIN users
                    THEN Reply("404", << >>)
                    ELSE Reply("200", [i \in {fcall[f].id} |-> users[i]]))
    /\ UNCHANGED <<server, trace>>

\* updateUser stores the decoded user under the id of the path, present
\* before or not.
updateUser(f) ==
    /\ fpc[f] = "crit" /\ fcall[f].op = "updateUser"
    /\ front' = IF fcall[f].body = BadJSON
                THEN FrontFinish(front, f, Reply("400", << >>))
                ELSE FrontFinish(
                         [front EXCEPT !.users = StoreUser(@, fcall[f].id, fcall[f].body)],
                         f, Reply("200", [i \in {fcall[f].id} |-> fcall[f].body]))
    /\ UNCHANGED <<server, trace>>

deleteUser(f) ==
    /\ fpc[f] = "crit" /\ fcall[f].op = "deleteUser"
    /\ front' = IF fcall[f].id \notin DOMAIN users
                THEN FrontFinish(front, f, Reply("404", << >>))
                ELSE FrontFinish([front EXCEPT !.users = DropUser(@, fcall[f].id)],
                                 f, Reply("200", << >>))
    /\ UNCHANGED <<server, trace>>

\* The client has its answer and the connection serves the next request.
Front_Return(f) ==
    /\ fpc[f] = "done"
    /\ front' = [front EXCEPT !.handlers = [g \in DOMAIN @ \ {f} |-> @[g]]]
    /\ UNCHANGED <<server, trace>>

NextFront ==
    \/ \E f \in FrontWorkers, req \in FrontRequests : Route(f, req)
    \/ \E f \in FrontWorkers : Mutex_Lock(f)
    \/ \E f \in FrontWorkers, id \in UserIds : createUser(f, id)
    \/ \E f \in FrontWorkers, answer \in CallAnswers : createUser_Called(f, answer)
    \/ \E f \in FrontWorkers : getAllUsers(f)
    \/ \E f \in FrontWorkers : getUser(f)
    \/ \E f \in FrontWorkers : updateUser(f)
    \/ \E f \in FrontWorkers : deleteUser(f)
    \/ \E f \in FrontWorkers : Front_Return(f)

SpecFront == Init /\ [][NextFront]_vars

\* The scheduling of the front end: a handler that can run does, a handler
\* waiting for the mutex gets it if it is free again and again (sync.Mutex
\* hands over to starved waiters), and a client reads its answer.  Nothing
\* makes a client send a request, and nothing makes client.Call come back.
FrontFairness ==
    \A f \in FrontWorkers :
        /\ SF_vars(Mutex_Lock(f))
        /\ WF_vars(\E id \in UserIds : createUser(f, id))
        /\ WF_vars(getAllUsers(f))
        /\ WF_vars(getUser(f))
        /\ WF_vars(updateUser(f))
        /\ WF_vars(deleteUser(f))
        /\ WF_vars(Front_Return(f))

SpecFrontFair == SpecFront /\ FrontFairness

\* ================================================================= claims
\* Steps of worker w, told by its pc.
GetReturns(w) == pc[w] = "crit" /\ call[w].method = "get" /\ pc'[w] = "done"
DeleteReturns(w) == pc[w] = "crit" /\ call[w].method = "delete" /\ pc'[w] = "done"
PostReturns(w) == pc[w] = "crit" /\ call[w].method = "post" /\ pc'[w] = "done"
StorageReturns(w) == pc[w] = "crit" /\ pc'[w] = "done"
Answered(w) == pc[w] = "done" /\ out[w] = "envelope"
NotFoundError == RPCError(AppErrorCode, KeyNotFound)

\* Key k keeps its presence and its value from d to e.
SameAt(d, e, k) ==
    /\ (k \in DOMAIN d) = (k \in DOMAIN e)
    /\ k \in DOMAIN d => d[k] = e[k]

\* C1 (as claimed): a get(k) or a delete(k) that runs while k is absent from
\* the store returns the error "key not found" and leaves the store as it was.
C1_AbsentKeyFails ==
    [][\A w \in Workers :
        (GetReturns(w) \/ DeleteReturns(w)) /\ call[w].key \notin DOMAIN data
        => /\ ret'[w].err = KeyNotFound
           /\ res'[w].Error = NotFoundError
           /\ data' = data]_vars

\* C2: a get(k) that runs when the latest mutation of k is post(k, v) returns
\* v, and the response's result is v.
C2_PostThenGet ==
    [][\A w \in Workers :
        GetReturns(w) /\ last[call[w].key].op = "post"
        => /\ ret'[w] = [value |-> last[call[w].key].val, err |-> Nil]
           /\ res'[w].Result = last[call[w].key].val
           /\ res'[w].Error = NilError]_vars

\* A get has answered "1" where a was last posted as "1" and b was never
\* written (so the get read a).
C2_Witness ==
    \E w \in Workers :
        /\ Answered(w) /\ res[w].Result = "1"
        /\ last["a"].op = "post" /\ last["a"].val = "1"
        /\ last["b"].op = "none"

\* C3: a get(k) that runs when the latest mutation of k is put(k, v2) returns
\* v2, whatever was put before it: the value of an earlier put(k, v1) is not
\* what get returns unless it is v2, and the map holds one value for k.
C3_LastWriteWins ==
    [][\A w \in Workers :
        GetReturns(w) /\ last[call[w].key].op = "put"
        => /\ ret'[w] = [value |-> last[call[w].key].val, err |-> Nil]
           /\ res'[w].Result = last[call[w].key].val
           /\ res'[w].Error = NilError
           /\ data[call[w].key] = last[call[w].key].val]_vars

\* A get has answered "2" where put(a, "2") came right after put(a, "1") and
\* b was never written.
C3_Witness ==
    \E w \in Workers :
        /\ Answered(w) /\ res[w].Result = "2"
        /\ last["a"] = [op |-> "put", val |-> "2", before |-> "1"]
        /\ last["b"].op = "none"

\* C4: a get(k) that runs when the latest mutation of k is delete(k) fails
\* with "key not found", and the response carries that error and no result.
C4_DeleteThenGet ==
    [][\A w \in Workers :
        GetReturns(w) /\ last[call[w].key].op = "delete"
        => /\ ret'[w].err = KeyNotFound
           /\ res'[w].Error = NotFoundError
           /\ res'[w].Result = Nil]_vars

\* A get has been answered "key not found" where the latest mutation of each
\* key is a delete (so the get read a deleted key).
C4_Witness ==
    \E w \in Workers :
        /\ Answered(w) /\ res[w].Error = NotFoundError
        /\ \A k \in Keys : last[k].op = "delete"

\* C5: whatever the workers do concurrently, a key whose latest mutation is
\* post(k, v) is in the store with the value v (no post is lost), and the
\* step in which a post writes leaves every key other than its own as it was.
C5_ConcurrentPosts ==
    /\ [](\A k \in Keys :
            last[k].op = "post" => k \in DOMAIN data /\ data[k] = last[k].val)
    /\ [][\A w \in Workers :
            PostReturns(w) =>
                \A k \in Keys \ {call[w].key} : SameAt(data, data', k)]_vars

\* Two workers have both been answered "success" and the store holds two
\* posts of different values to the two keys.
C5_Witness ==
    /\ \A w \in {1, 2} : Answered(w) /\ res[w].Result = Success
    /\ last["a"].op = "post" /\ last["b"].op = "post"
    /\ data = [k \in Keys |-> IF k = "a" THEN "1" ELSE "2"]

\* The workers inside a critical section of the storage.
Writers == {w \in Workers : pc[w] = "crit" /\ call[w].method # "get"}
Readers == {w \in Workers : pc[w] = "crit" /\ call[w].method = "get"}

\* C6: at most one writer is inside its critical section, and while one is,
\* no reader is; the lock counts the readers inside and knows the writer.
C6_ReaderWriterLock ==
    /\ Cardinality(Writers) <= 1
    /\ Writers # {} => Readers = {}
    /\ mu.writer = (Writers # {})
    /\ mu.readers = Cardinality(Readers)

\* Two readers are inside at the same time.
C6_Witness == Cardinality(Readers) >= 2 /\ mu.readers >= 2

\* C7 (as claimed): no request makes the handler crash; one whose params
\* cannot be extracted is answered with a JSON-RPC error envelope.
C7_BadParamsAnswered ==
    \A w \in Workers :
        pc[w] = "done" => out[w] \in {"envelope", "bad_request"}

\* C8: a request whose method is not get, post, put or delete is answered
\* with the error -32601 "Method not found" and no result, and serving it
\* leaves the store as it was.
C8_UnknownMethod ==
    [][\A w \in Workers :
        pc[w] = "idle" /\ call'[w] # NoCall /\ call'[w].method \notin KnownMethods
        => /\ pc'[w] = "done" /\ out'[w] = "envelope"
           /\ res'[w].Error = RPCError(MethodNotFound, "Method not found")
           /\ res'[w].Result = Nil
           /\ data' = data]_vars

\* A createUser request has been answered with -32601 while the store holds
\* a key.
C8_Witness ==
    \E w \in Workers :
        /\ Answered(w) /\ call[w].method = "createUser"
        /\ res[w].Error.Code = MethodNotFound
        /\ data # << >>

\* C9: every response envelope written has a result or an error, never both
\* and never neither.
C9_ExactlyOne ==
    \A w \in Workers :
        out[w] = "envelope" => (res[w].Result # Nil) = res[w].Error.isNil

\* One envelope with a result and one with an error have been written.
C9_Witness ==
    \E v, w \in Workers :
        /\ Answered(v) /\ res[v].Result # Nil
        /\ Answered(w) /\ ~res[w].Error.isNil

\* C10: when the storage call returns, the response is its outcome: for a
\* get that found the key, the result is the value the store holds for it;
\* for a post, put or delete that returned nil, the result is "success"; for
\* an error, the error object has code 1 and the error's text, which is "key
\* not found" for a get of an absent key; and the other field stays unset.
C10_OutcomeMapping ==
    [][\A w \in Workers :
        StorageReturns(w) =>
            IF ret'[w].err # Nil
            THEN /\ res'[w].Error = RPCError(AppErrorCode, ret'[w].err)
                 /\ res'[w].Result = Nil
                 /\ call[w].method = "get" /\ call[w].key \notin DOMAIN data
                    => ret'[w].err = KeyNotFound
            ELSE /\ res'[w].Error = NilError
                 /\ res'[w].Result =
                        IF call[w].method = "get" THEN data[call[w].key] ELSE Success]_vars

\* A get has been answered with the stored value and another request with
\* the error of code 1.
C10_Witness ==
    \E v, w \in Workers :
        /\ Answered(v) /\ res[v].Result = "2" /\ "2" \in {data[k] : k \in DOMAIN data}
        /\ Answered(w) /\ res[w].Error = NotFoundError

\* The scenario of the claim: post a=1, get a, delete a, get a.
Scenario ==
    <<Call("post", "a", "1"), Call("get", "a", Missing),
      Call("delete", "a", Missing), Call("get", "a", Missing)>>
RanScenario ==
    /\ Len(trace) >= Len(Scenario)
    /\ \A i \in 1..Len(Scenario) : trace[i].req = Scenario[i] /\ trace[i].out # "none"

\* C11: a client that starts on the empty store and sends post(a,1), get(a),
\* delete(a), get(a), each after the answer to the one before, is answered
\* "success", "1", "success" and the error of code 1 "key not found".
C11_Scenario ==
    RanScenario =>
        /\ \A i \in 1..Len(Scenario) : trace[i].out = "envelope"
        /\ \A i \in 1..3 : trace[i].res.Error = NilError
        /\ trace[1].res.Result = Success
        /\ trace[2].res.Result = "1"
        /\ trace[3].res.Result = Success
        /\ trace[4].res.Result = Nil
        /\ trace[4].res.Error = NotFoundError

\* The four requests of the scenario have been answered.
C11_Witness == RanScenario /\ trace[4].res.Error.Code = AppErrorCode

\* The store shows the latest mutation of key k.
StoreShows(k) ==
    IF last[k].op \in {"post", "put"}
    THEN k \in DOMAIN data /\ data[k] = last[k].val
    ELSE k \notin DOMAIN data

\* C12: once a mutation has returned, the store shows it until the next
\* mutation of the same key, and every get that runs then, on any worker,
\* returns what the latest mutation of its key left: the value written, or
\* "key not found" after a delete or before any write; a get never returns
\* a value that was not the latest written for its key.
C12_Visibility ==
    /\ [](\A k \in Keys : StoreShows(k))
    /\ [][\A w \in Workers :
            GetReturns(w) =>
                ret'[w] = IF last[call[w].key].op \in {"post", "put"}
                          THEN [value |-> last[call[w].key].val, err |-> Nil]
                          ELSE [value |-> "", err |-> KeyNotFound]]_vars

\* A get has been answered "1", the value last posted to a, after b was
\* deleted, while another worker is inside a storage call.
C12_Witness ==
    \E v, w \in Workers :
        /\ Answered(v) /\ res[v].Result = "1"
        /\ last["a"].op = "post" /\ last["a"].val = "1"
        /\ last["b"].op = "delete"
        /\ pc[w] = "crit"

\* C13: a body that does not decode is answered with the HTTP bad request
\* and nothing else: no response envelope is built or written, no storage
\* operation is called (the lock and the history are untouched, the handler
\* is done) and the store is as it was.
C13_UndecodableBody ==
    [][\A w \in Workers :
        HandleRequest(w, Malformed)
        => /\ out'[w] = "bad_request"
           /\ res'[w] = NoRes /\ ret'[w] = NoRet
           /\ pc'[w] = "done"
           /\ mu' = mu /\ last' = last /\ data' = data]_vars

\* A body that does not decode has been answered with bad request while the
\* store holds a key.
C13_Witness ==
    \E w \in Workers :
        /\ pc[w] = "done" /\ out[w] = "bad_request" /\ res[w] = NoRes
        /\ data # << >>

WriterReturns(w) == pc[w] = "crit" /\ call[w].method # "get" /\ pc'[w] = "done"

\* C14: a post(k, v) and a put(k, v) that run on the same store leave the
\* same store and the same response: each returns nil and answers
\* "success", and each leaves k with the value v, present before or not.
C14_PostPutSame ==
    [][\A w \in Workers :
        WriterReturns(w) /\ call[w].method \in {"post", "put"}
        => LET k == call[w].key
               v == call[w].value
               r == NewResponse(call[w].id)
           IN  /\ data' = Post(data, k, v).data
               /\ data' = Put(data, k, v).data
               /\ ret'[w].err = Nil
               /\ res'[w] = ResponseFor(r, "post", Post(data, k, v))
               /\ res'[w] = ResponseFor(r, "put", Put(data, k, v))
               /\ res'[w].Result = Success
               /\ k \in DOMAIN data' /\ data'[k] = v]_vars

\* A post and a put have both been answered "success": the post overwrote
\* nothing or something, the put overwrote an earlier put.
C14_Witness ==
    /\ \A w \in {1, 2} : Answered(w) /\ res[w].Result = Success
    /\ last["a"].op = "post"
    /\ last["b"] = [op |-> "put", val |-> "2", before |-> "1"]

\* C18: a get leaves the store as it was; a post, put or delete of k leaves
\* every other key with its presence and its value; and no other step of a
\* handler changes the store.
C18_Frame ==
    [][/\ \A w \in Workers : GetReturns(w) => data' = data
       /\ \A w \in Workers :
            WriterReturns(w) =>
                \A k \in Keys \ {call[w].key} : SameAt(data, data', k)
       /\ (\A w \in Workers : ~WriterReturns(w)) => data' = data]_vars

\* A delete of a has been answered and b, put before it, is still there.
C18_Witness ==
    /\ \E w \in Workers : Answered(w) /\ res[w].Result = Success
    /\ last["a"].op = "delete" /\ "a" \notin DOMAIN data
    /\ last["b"].op = "put" /\ "b" \in DOMAIN data /\ data["b"] = last["b"].val

\* C17: every response envelope carries the id of the request it answers:
\* the response a handler starts to build has its request's id, whatever the
\* method, keeps it while the storage call runs, and has it when it is
\* encoded, with a result or with an error, whatever ids the requests of
\* the other workers carry.
C17_IdEchoed ==
    /\ [](\A w \in Workers : pc[w] \in {"lock", "crit"} => res[w].ID = call[w].id)
    /\ [][\A w \in Workers :
            /\ \A body \in IdBodies :
                    HandleRequest(w, body) /\ body.decodes /\ out'[w] # "aborted"
                    => res'[w].ID = body.id
            /\ StorageReturns(w)
               => out'[w] = "envelope" /\ res'[w].ID = call[w].id]_vars

\* Two requests handled side by side have been answered, the one of id 1
\* with a result and the one of id 2 with the error for an unknown method.
C17_Witness ==
    \E v, w \in Workers :
        /\ Answered(v) /\ res[v].ID = 1 /\ res[v].Result # Nil
        /\ Answered(w) /\ res[w].ID = 2 /\ res[w].Error.Code = MethodNotFound

\* ---------------------------------------------------- claims: front end
\* Worker f created a user and its forwarded call came back.
Forwarded(f) ==
    /\ fpc[f] = "done"
    /\ fcall[f].op = "createUser"
    /\ fwd[f].kind # "none"

\* C15: a request that hangs blocks only its own worker: while a createUser
\* waits for its forwarded call, any other front-end request that waits for
\* the mutex finds it free and can go on.
C15_HungBlocksOnlyItself ==
    \A f, g \in FrontWorkers :
        (fpc[f] = "rpc" /\ fpc[g] = "lock") => mutex = 0

\* C16: the createUser call the front end forwards is rejected by the
\* dispatcher on its unknown-method path: whenever the server answered the
\* call, the answer is an envelope with error code -32601 and no result.
C16_ForwardRejected ==
    \A f \in FrontWorkers :
        fwd[f].kind \notin {"none", "refused"} =>
            /\ fwd[f].kind = "envelope"
            /\ fwd[f].res.Result = Nil
            /\ ~fwd[f].res.Error.isNil
            /\ fwd[f].res.Error.Code = MethodNotFound

\* C19: creating a user is not atomic with forwarding it: the user is in
\* the map before the call starts; when the call has failed or was rejected
\* the caller gets a failure (500, or a closed connection) and the map is
\* left as it is, the new user included; and a getUser of an id that is in
\* the map is answered 200 with that user.
C19_NotAtomic ==
    [][\A f \in FrontWorkers :
        /\ (fpc[f] = "crit" /\ fpc'[f] = "rpc") =>
              /\ fcall'[f].id \in DOMAIN users' \ DOMAIN users
              /\ users'[fcall'[f].id] = fcall[f].body
        /\ (fpc[f] = "rpc" /\ fpc'[f] = "done") =>
              /\ fout'[f].status \in {"500", "aborted"}
              /\ users' = users
              /\ fcall[f].id \in DOMAIN users'
        /\ (getUser(f) /\ fcall[f].id \in DOMAIN users) =>
              fout'[f] = Reply("200", [i \in {fcall[f].id} |-> users[i]])
      ]_vars

C19_Witness ==
    \E f, g \in FrontWorkers :
        /\ Forwarded(f) /\ fout[f].status = "500"
        /\ fpc[g] = "done" /\ fcall[g].op = "getUser"
        /\ fcall[g].id = fcall[f].id
        /\ fout[g] = Reply("200", [i \in {fcall[f].id} |-> fcall[f].body])

====
